---- MODULE Spec2Model ----
(***************************************************************************)
(* Equipment rules of choreboard-remix, as the database enforces them:     *)
(* the tables heroes, items and hero_equipment of the migration            *)
(* 20250207054035_dawn_fog.sql with the row triggers                       *)
(* validate_equipment_slot_trigger (BEFORE INSERT OR UPDATE) and           *)
(* enforce_two_handed_weapon (AFTER INSERT OR UPDATE).                     *)
(*                                                                         *)
(* A table is the set of its rows.  Only the columns the rules read are    *)
(* kept: heroes(id, is_developer, is_paying_customer), items(id,           *)
(* item_types), hero_equipment(hero_id, item_id, slot),                    *)
(* hero_inventory(hero_id, item_id, quantity), realms(id, created_by);     *)
(* the two flags of a hero are kept in hero_flags[id].  The array column   *)
(* item_types is read by the triggers                                      *)
(* only through "x = ANY(item_types)", so it is kept as the set of its     *)
(* elements.  One SQL statement is one step: PostgreSQL rolls a statement  *)
(* back as a whole when a trigger raises, so only committed states occur.  *)
(*                                                                         *)
(* The specifications Spec, SpecTypes and SpecInventory run the statements *)
(* one after the other.  SpecConcurrent runs equip calls as concurrent     *)
(* transactions at PostgreSQL's default isolation level (READ COMMITTED;   *)
(* the migrations set no other level and take no explicit lock): there     *)
(* hero_equipment is the committed table, txn holds what each open         *)
(* transaction has done so far, and start is the table they started from.  *)
(***************************************************************************)
EXTENDS Integers, FiniteSets, Sequences, TLC

VARIABLES heroes, items, hero_inventory, hero_equipment, last, txn, start,
          realms, hero_flags

vars ==
  <<heroes, items, hero_inventory, hero_equipment, last, txn, start,
    realms, hero_flags>>

-----------------------------------------------------------------------------
(* Enumerated types                                                        *)

equipment_slot == {"helm", "weapon", "shield", "armor", "gloves"}

item_type ==
  {"helm", "weapon", "shield", "armor", "gloves", "two_handed_weapon", "robe"}

\* NEW.slot::text::item_type : the label of the slot, read as an item_type.
\* Every equipment_slot label is also an item_type label, so the cast is
\* defined on all five slots.
SlotAsItemType(slot) ==
  CHOOSE t \in item_type : t = slot

-----------------------------------------------------------------------------
(* Bounds and inputs                                                       *)

NumHeroes == 2

HeroIds == 1 .. NumHeroes

\* The item rows the model inserts: Catalog[i] is the item_types of item i.
Catalog ==
  << {"two_handed_weapon"},
     {"helm", "two_handed_weapon"},
     {"shield"},
     {"robe"} >>

ItemIds == 1 .. Len(Catalog)

\* The quantities written to hero_inventory: the column is an integer with no
\* CHECK, so negative numbers are among them.
MaxQuantity == 1

Quantities == (0 - MaxQuantity) .. MaxQuantity

NumTxns == 2

Txns == 1 .. NumTxns

\* The concurrent calls are calls of one hero.
ConcurrentHeroIds == { h \in HeroIds : h = 1 }

\* The items the inventory specification equips and stocks: a two-handed
\* weapon and a shield.
InventoryItemIds == { i \in ItemIds : Catalog[i] \in {{"two_handed_weapon"}, {"shield"}} }

-----------------------------------------------------------------------------
(* Outcomes of a statement                                                 *)

Ok == "ok"

IncompatibleSlot == "Item cannot be equipped in the specified slot"

ForeignKeyViolation == "foreign_key_violation"

UniqueViolation == "unique_violation"

\* What a row trigger function does: return NEW, return NULL or raise.
ReturnNew == [kind |-> "return", row |-> "NEW", message |-> ""]

ReturnNull == [kind |-> "return", row |-> "NULL", message |-> ""]

RaiseException(msg) == [kind |-> "raise", row |-> "NULL", message |-> msg]

-----------------------------------------------------------------------------
(* Trigger functions                                                       *)

\* Faulty variant: the robe special case names only the armor slot.
validate_equipment_slot_no_robe_helm(itemsT, new) ==
  IF ~ \E id \in DOMAIN itemsT :
         /\ id = new.item_id
         /\ \/ SlotAsItemType(new.slot) \in itemsT[id]
            \/ (new.slot \in {"weapon", "shield"}
                  /\ "two_handed_weapon" \in itemsT[id])
            \/ (new.slot \in {"armor"} /\ "robe" \in itemsT[id])
  THEN RaiseException(IncompatibleSlot)
  ELSE ReturnNew

\* Faulty variant: the two-handed special case forgets the slot test.
validate_equipment_slot_any_slot(itemsT, new) ==
  IF ~ \E id \in DOMAIN itemsT :
         /\ id = new.item_id
         /\ \/ SlotAsItemType(new.slot) \in itemsT[id]
            \/ "two_handed_weapon" \in itemsT[id]
            \/ (new.slot \in {"armor", "helm"} /\ "robe" \in itemsT[id])
  THEN RaiseException(IncompatibleSlot)
  ELSE ReturnNew

\* Faulty variant: the row is skipped silently instead of raising.
validate_equipment_slot_silent(itemsT, new) ==
  IF ~ \E id \in DOMAIN itemsT :
         /\ id = new.item_id
         /\ \/ SlotAsItemType(new.slot) \in itemsT[id]
            \/ (new.slot \in {"weapon", "shield"}
                  /\ "two_handed_weapon" \in itemsT[id])
            \/ (new.slot \in {"armor", "helm"} /\ "robe" \in itemsT[id])
  THEN ReturnNull
  ELSE ReturnNew

\* Faulty variant: the item must also be in the hero's inventory.
validate_equipment_slot_owned(itemsT, new) ==
  IF ~ \E id \in DOMAIN itemsT :
         /\ id = new.item_id
         /\ \E v \in hero_inventory :
              /\ v.hero_id = new.hero_id
              /\ v.item_id = id
              /\ v.quantity > 0
         /\ \/ SlotAsItemType(new.slot) \in itemsT[id]
            \/ (new.slot \in {"weapon", "shield"}
                  /\ "two_handed_weapon" \in itemsT[id])
            \/ (new.slot \in {"armor", "helm"} /\ "robe" \in itemsT[id])
  THEN RaiseException(IncompatibleSlot)
  ELSE ReturnNew

validate_equipment_slot(itemsT, new) ==
  IF ~ \E id \in DOMAIN itemsT :
         /\ id = new.item_id
         /\ \/ SlotAsItemType(new.slot) \in itemsT[id]
            \/ (new.slot \in {"weapon", "shield"}
                  /\ "two_handed_weapon" \in itemsT[id])
            \/ (new.slot \in {"armor", "helm"} /\ "robe" \in itemsT[id])
  THEN RaiseException(IncompatibleSlot)
  ELSE ReturnNew

\* Faulty variant: the sibling row is deleted only when it holds the same item.
check_two_handed_weapon_same_item(itemsT, equipment, new) ==
  IF \E id \in DOMAIN itemsT :
       id = new.item_id /\ "two_handed_weapon" \in itemsT[id]
  THEN { r \in equipment :
           ~ (/\ r.hero_id = new.hero_id
              /\ r.slot \in {"weapon", "shield"}
              /\ r.slot # new.slot
              /\ r.item_id = new.item_id) }
  ELSE equipment

\* Faulty variant: the sibling row is deleted only when it holds another item.
check_two_handed_weapon_other_item(itemsT, equipment, new) ==
  IF \E id \in DOMAIN itemsT :
       id = new.item_id /\ "two_handed_weapon" \in itemsT[id]
  THEN { r \in equipment :
           ~ (/\ r.hero_id = new.hero_id
              /\ r.slot \in {"weapon", "shield"}
              /\ r.slot # new.slot
              /\ r.item_id # new.item_id) }
  ELSE equipment

\* Faulty variant: the DELETE lacks "AND slot != NEW.slot".
check_two_handed_weapon_both_hands(itemsT, equipment, new) ==
  IF \E id \in DOMAIN itemsT :
       id = new.item_id /\ "two_handed_weapon" \in itemsT[id]
  THEN { r \in equipment :
           ~ (/\ r.hero_id = new.hero_id
              /\ r.slot \in {"weapon", "shield"}) }
  ELSE equipment

\* Faulty variant: the DELETE lacks "hero_id = NEW.hero_id".
check_two_handed_weapon_all_heroes(itemsT, equipment, new) ==
  IF \E id \in DOMAIN itemsT :
       id = new.item_id /\ "two_handed_weapon" \in itemsT[id]
  THEN { r \in equipment :
           ~ (/\ r.slot \in {"weapon", "shield"}
              /\ r.slot # new.slot) }
  ELSE equipment

\* Faulty variant: the test for a two-handed item is missing.
check_two_handed_weapon_any_item(itemsT, equipment, new) ==
  { r \in equipment :
      ~ (/\ r.hero_id = new.hero_id
         /\ r.slot \in {"weapon", "shield"}
         /\ r.slot # new.slot) }

\* The table hero_equipment after the trigger function has run for NEW.
check_two_handed_weapon(itemsT, equipment, new) ==
  IF \E id \in DOMAIN itemsT :
       id = new.item_id /\ "two_handed_weapon" \in itemsT[id]
  THEN { r \in equipment :
           ~ (/\ r.hero_id = new.hero_id
              /\ r.slot \in {"weapon", "shield"}
              /\ r.slot # new.slot) }
  ELSE equipment

-----------------------------------------------------------------------------
(* Triggers                                                                *)

\* BEFORE INSERT OR UPDATE ON hero_equipment FOR EACH ROW
validate_equipment_slot_trigger(itemsT, new) ==
  validate_equipment_slot(itemsT, new)

\* Faulty variant: the trigger has no WHEN clause.
enforce_two_handed_weapon_no_when(itemsT, equipment, new) ==
  check_two_handed_weapon(itemsT, equipment, new)

\* AFTER INSERT OR UPDATE ON hero_equipment FOR EACH ROW
\* WHEN (NEW.slot IN ('weapon', 'shield'))
enforce_two_handed_weapon(itemsT, equipment, new) ==
  IF new.slot \in {"weapon", "shield"}
  THEN check_two_handed_weapon(itemsT, equipment, new)
  ELSE equipment

-----------------------------------------------------------------------------
(* Table hero_equipment                                                    *)

\* The rows of the table with the primary key (hero_id, slot) of NEW.
SameKey(equipment, new) ==
  { r \in equipment : r.hero_id = new.hero_id /\ r.slot = new.slot }

\* Faulty variant: the table has no primary key, the row is simply added.
WriteRowNoKey(equipment, new) ==
  equipment \cup {new}

\* PRIMARY KEY (hero_id, slot): the write of NEW takes the place of the row
\* with the same key, if there is one.
WriteRow(equipment, new) ==
  (equipment \ SameKey(equipment, new)) \cup {new}

\* hero_id REFERENCES heroes(id), item_id REFERENCES items(id)
ForeignKeysHold(heroesT, itemsT, new) ==
  new.hero_id \in heroesT /\ new.item_id \in DOMAIN itemsT

\* Faulty variant: a plain INSERT, which the primary key rejects when the slot is
\* occupied.
InsertPlain(heroesT, itemsT, equipment, new) ==
  LET before == validate_equipment_slot_trigger(itemsT, new)
      written == WriteRow(equipment, new)
  IN  IF before.kind = "raise"
      THEN [result |-> before.message, table |-> equipment]
      ELSE IF before.row = "NULL"
      THEN [result |-> Ok, table |-> equipment]
      ELSE IF SameKey(equipment, new) # {}
      THEN [result |-> UniqueViolation, table |-> equipment]
      ELSE IF ~ ForeignKeysHold(heroesT, itemsT, new)
      THEN [result |-> ForeignKeyViolation, table |-> equipment]
      ELSE [result |-> Ok,
            table |-> enforce_two_handed_weapon(itemsT, written, new)]

\* The statement behind equip: the row NEW is inserted, or takes the place of
\* the row with its key.  The BEFORE trigger sees NEW first; when it raises,
\* or a foreign key fails, the statement is rolled back and the table is as
\* it was.  The AFTER trigger runs on the table with NEW written.
Upsert(heroesT, itemsT, equipment, new) ==
  LET before == validate_equipment_slot_trigger(itemsT, new)
      written == WriteRow(equipment, new)
  IN  IF before.kind = "raise"
      THEN [result |-> before.message, table |-> equipment]
      ELSE IF before.row = "NULL"
      THEN [result |-> Ok, table |-> equipment]
      ELSE IF ~ ForeignKeysHold(heroesT, itemsT, new)
      THEN [result |-> ForeignKeyViolation, table |-> equipment]
      ELSE [result |-> Ok,
            table |-> enforce_two_handed_weapon(itemsT, written, new)]

\* Faulty variant: the DELETE lacks the slot condition.
DeleteRowAllSlots(equipment, hero_id, slot) ==
  [result |-> Ok,
   table |-> { r \in equipment : ~ (r.hero_id = hero_id) }]

\* Faulty variant: a hand slot takes the other hand slot with it.
DeleteRowBothHands(equipment, hero_id, slot) ==
  [result |-> Ok,
   table |-> { r \in equipment :
                 ~ (/\ r.hero_id = hero_id
                    /\ \/ r.slot = slot
                       \/ {r.slot, slot} = {"weapon", "shield"}) }]

\* The statement behind unequip: DELETE FROM hero_equipment WHERE hero_id =
\* .. AND slot = ..; the table has no DELETE trigger.
DeleteRow(equipment, hero_id, slot) ==
  [result |-> Ok,
   table |-> { r \in equipment : ~ (r.hero_id = hero_id /\ r.slot = slot) }]

-----------------------------------------------------------------------------
(* The other versions of the equipment rules in the source:                *)
(* 20250207041930_wispy_waterfall.sql and unnamed/part_001 have the two    *)
(* trigger functions, unnamed/part_002 has the inline CHECK constraint     *)
(* valid_equipment_slot and the function check_two_handed_weapon.          *)

CheckViolation == "check_violation"

\* Faulty variant: the CHECK lacks the case of the robe.
valid_equipment_slot_no_robe(itemsT, new) ==
  \E id \in DOMAIN itemsT :
    /\ id = new.item_id
    /\ \/ SlotAsItemType(new.slot) \in itemsT[id]
       \/ (new.slot \in {"weapon", "shield"}
             /\ "two_handed_weapon" \in itemsT[id])

\* unnamed/part_002: CONSTRAINT valid_equipment_slot CHECK (EXISTS (...)),
\* the value of the CHECK expression for the row NEW.
valid_equipment_slot(itemsT, new) ==
  \E id \in DOMAIN itemsT :
    /\ id = new.item_id
    /\ \/ SlotAsItemType(new.slot) \in itemsT[id]
       \/ (new.slot \in {"weapon", "shield"}
             /\ "two_handed_weapon" \in itemsT[id])
       \/ (new.slot \in {"armor", "helm"} /\ "robe" \in itemsT[id])

check_two_handed_weapon_part_002(itemsT, equipment, new) ==
  IF \E id \in DOMAIN itemsT :
       id = new.item_id /\ "two_handed_weapon" \in itemsT[id]
  THEN { r \in equipment :
           ~ (/\ r.hero_id = new.hero_id
              /\ r.slot \in {"weapon", "shield"}
              /\ r.slot # new.slot) }
  ELSE equipment

enforce_two_handed_weapon_part_002(itemsT, equipment, new) ==
  IF new.slot \in {"weapon", "shield"}
  THEN check_two_handed_weapon_part_002(itemsT, equipment, new)
  ELSE equipment

\* The upsert under unnamed/part_002: the CHECK and the foreign keys, then
\* the AFTER trigger.
Upsert_part_002(heroesT, itemsT, equipment, new) ==
  IF ~ valid_equipment_slot(itemsT, new)
  THEN [result |-> CheckViolation, table |-> equipment]
  ELSE IF ~ ForeignKeysHold(heroesT, itemsT, new)
  THEN [result |-> ForeignKeyViolation, table |-> equipment]
  ELSE [result |-> Ok,
        table |-> enforce_two_handed_weapon_part_002(
                    itemsT, WriteRow(equipment, new), new)]

validate_equipment_slot_part_001(itemsT, new) ==
  IF ~ \E id \in DOMAIN itemsT :
         /\ id = new.item_id
         /\ \/ SlotAsItemType(new.slot) \in itemsT[id]
            \/ (new.slot \in {"weapon", "shield"}
                  /\ "two_handed_weapon" \in itemsT[id])
            \/ (new.slot \in {"armor", "helm"} /\ "robe" \in itemsT[id])
  THEN RaiseException(IncompatibleSlot)
  ELSE ReturnNew

check_two_handed_weapon_part_001(itemsT, equipment, new) ==
  IF \E id \in DOMAIN itemsT :
       id = new.item_id /\ "two_handed_weapon" \in itemsT[id]
  THEN { r \in equipment :
           ~ (/\ r.hero_id = new.hero_id
              /\ r.slot \in {"weapon", "shield"}
              /\ r.slot # new.slot) }
  ELSE equipment

enforce_two_handed_weapon_part_001(itemsT, equipment, new) ==
  IF new.slot \in {"weapon", "shield"}
  THEN check_two_handed_weapon_part_001(itemsT, equipment, new)
  ELSE equipment

\* The upsert under unnamed/part_001.
Upsert_part_001(heroesT, itemsT, equipment, new) ==
  LET before == validate_equipment_slot_part_001(itemsT, new)
  IN  IF before.kind = "raise"
      THEN [result |-> before.message, table |-> equipment]
      ELSE IF ~ ForeignKeysHold(heroesT, itemsT, new)
      THEN [result |-> ForeignKeyViolation, table |-> equipment]
      ELSE [result |-> Ok,
            table |-> enforce_two_handed_weapon_part_001(
                        itemsT, WriteRow(equipment, new), new)]

validate_equipment_slot_wispy_waterfall(itemsT, new) ==
  IF ~ \E id \in DOMAIN itemsT :
         /\ id = new.item_id
         /\ \/ SlotAsItemType(new.slot) \in itemsT[id]
            \/ (new.slot \in {"weapon", "shield"}
                  /\ "two_handed_weapon" \in itemsT[id])
            \/ (new.slot \in {"armor", "helm"} /\ "robe" \in itemsT[id])
  THEN RaiseException(IncompatibleSlot)
  ELSE ReturnNew

check_two_handed_weapon_wispy_waterfall(itemsT, equipment, new) ==
  IF \E id \in DOMAIN itemsT :
       id = new.item_id /\ "two_handed_weapon" \in itemsT[id]
  THEN { r \in equipment :
           ~ (/\ r.hero_id = new.hero_id
              /\ r.slot \in {"weapon", "shield"}
              /\ r.slot # new.slot) }
  ELSE equipment

enforce_two_handed_weapon_wispy_waterfall(itemsT, equipment, new) ==
  IF new.slot \in {"weapon", "shield"}
  THEN check_two_handed_weapon_wispy_waterfall(itemsT, equipment, new)
  ELSE equipment

\* The upsert under 20250207041930_wispy_waterfall.sql.
Upsert_wispy_waterfall(heroesT, itemsT, equipment, new) ==
  LET before == validate_equipment_slot_wispy_waterfall(itemsT, new)
  IN  IF before.kind = "raise"
      THEN [result |-> before.message, table |-> equipment]
      ELSE IF ~ ForeignKeysHold(heroesT, itemsT, new)
      THEN [result |-> ForeignKeyViolation, table |-> equipment]
      ELSE [result |-> Ok,
            table |-> enforce_two_handed_weapon_wispy_waterfall(
                        itemsT, WriteRow(equipment, new), new)]

-----------------------------------------------------------------------------
(* Table hero_inventory                                                    *)

InventoryRow(hero_id, item_id, quantity) ==
  [hero_id |-> hero_id, item_id |-> item_id, quantity |-> quantity]

\* The rows of the table with the primary key (hero_id, item_id) of NEW.
SameInventoryKey(inventory, new) ==
  { r \in inventory : r.hero_id = new.hero_id /\ r.item_id = new.item_id }

\* The statement that stocks an item: the row NEW is inserted, or takes the
\* place of the row with its key.  The table has no trigger and no CHECK;
\* hero_id and item_id are foreign keys.
UpsertInventory(heroesT, itemsT, inventory, new) ==
  IF ~ (new.hero_id \in heroesT /\ new.item_id \in DOMAIN itemsT)
  THEN [result |-> ForeignKeyViolation, table |-> inventory]
  ELSE [result |-> Ok,
        table |-> (inventory \ SameInventoryKey(inventory, new)) \cup {new}]

\* DELETE FROM hero_inventory WHERE hero_id = .. AND item_id = ..
DeleteInventoryRow(inventory, hero_id, item_id) ==
  [result |-> Ok,
   table |-> { r \in inventory :
                 ~ (r.hero_id = hero_id /\ r.item_id = item_id) }]

-----------------------------------------------------------------------------
(* State                                                                   *)

Row(hero_id, item_id, slot) ==
  [hero_id |-> hero_id, item_id |-> item_id, slot |-> slot]

\* The last statement: what was called, how it ended, and the rows of
\* hero_equipment it removed and added.
Call(op, args, result, before, after) ==
  [op |-> op, args |-> args, result |-> result,
   evicted |-> before \ after, inserted |-> after \ before]

NoCall == Call("none", << >>, Ok, {}, {})

\* is_developer boolean DEFAULT false, is_paying_customer boolean DEFAULT
\* false: the columns are nullable, so a flag is true, false or null.
Flag == {"true", "false", "null"}

DefaultFlags == [is_developer |-> "false", is_paying_customer |-> "false"]

\* A transaction that has not begun.
Idle == [pc |-> "idle", args |-> << >>, deleted |-> {}, result |-> ""]

Init ==
  /\ heroes = {}
  /\ items = << >>
  /\ hero_inventory = {}
  /\ hero_equipment = {}
  /\ last = NoCall
  /\ txn = [t \in Txns |-> Idle]
  /\ realms = {}
  /\ hero_flags = [h \in heroes |-> DefaultFlags]
  /\ start = {}

-----------------------------------------------------------------------------
(* Statements                                                              *)

\* INSERT INTO heroes.  The id is a fresh uuid, and which one is immaterial:
\* the heroes are numbered in the order of their insertion.
InsertHero(h) ==
  /\ h \notin heroes
  /\ (h = 1 \/ h - 1 \in heroes)
  /\ heroes' = heroes \cup {h}
  /\ last' = Call("insert_hero", <<h>>, Ok, {}, {})
  /\ hero_flags' = [g \in heroes \cup {h} |->
                      IF g = h THEN DefaultFlags ELSE hero_flags[g]]
  /\ UNCHANGED <<items, hero_inventory, hero_equipment, txn, start,
                 realms>>

\* INSERT INTO items.  The id is a fresh uuid (gen_random_uuid()): the items
\* are numbered in the order of their insertion, and item i is inserted with
\* the item_types Catalog[i].
InsertItem(i) ==
  /\ i \notin DOMAIN items
  /\ (i = 1 \/ i - 1 \in DOMAIN items)
  /\ items' = [id \in DOMAIN items \cup {i} |->
                 IF id = i THEN Catalog[i] ELSE items[id]]
  /\ last' = Call("insert_item", <<i>>, Ok, {}, {})
  /\ UNCHANGED <<heroes, hero_inventory, hero_equipment, txn, start,
                 realms, hero_flags>>

\* Faulty variant: the rows the equip removes take their items out of the
\* inventory as well.
EquipDestroysEvicted(h, i, s) ==
  LET out == Upsert(heroes, items, hero_equipment, Row(h, i, s))
  IN  /\ hero_equipment' = out.table
      /\ hero_inventory' =
           { v \in hero_inventory :
               ~ \E r \in hero_equipment \ out.table :
                   r.hero_id = v.hero_id /\ r.item_id = v.item_id }
      /\ last' = Call("equip", <<h, i, s>>, out.result,
                      hero_equipment, out.table)
      /\ UNCHANGED <<heroes, items, txn, start,
                     realms, hero_flags>>

\* equip(hero, item, slot): one upsert of the row (hero, item, slot).
Equip(h, i, s) ==
  LET out == Upsert(heroes, items, hero_equipment, Row(h, i, s))
  IN  /\ hero_equipment' = out.table
      /\ last' = Call("equip", <<h, i, s>>, out.result,
                      hero_equipment, out.table)
      /\ UNCHANGED <<heroes, items, hero_inventory, txn, start,
                     realms, hero_flags>>

\* unequip(hero, slot): one delete of the row with the key (hero, slot).
Unequip(h, s) ==
  LET out == DeleteRow(hero_equipment, h, s)
  IN  /\ hero_equipment' = out.table
      /\ last' = Call("unequip", <<h, s>>, out.result,
                      hero_equipment, out.table)
      /\ UNCHANGED <<heroes, items, hero_inventory, txn, start,
                     realms, hero_flags>>

\* The hero acquires an item, or the count of an item changes: one upsert of
\* the row (hero, item, quantity) of hero_inventory.
SetInventory(h, i, q) ==
  LET out == UpsertInventory(heroes, items, hero_inventory,
                             InventoryRow(h, i, q))
  IN  /\ hero_inventory' = out.table
      /\ last' = Call("set_inventory", <<h, i, q>>, out.result, {}, {})
      /\ UNCHANGED <<heroes, items, hero_equipment, txn, start,
                     realms, hero_flags>>

\* One delete of the row with the key (hero, item) of hero_inventory.
DeleteInventory(h, i) ==
  LET out == DeleteInventoryRow(hero_inventory, h, i)
  IN  /\ hero_inventory' = out.table
      /\ last' = Call("delete_inventory", <<h, i>>, out.result, {}, {})
      /\ UNCHANGED <<heroes, items, hero_equipment, txn, start,
                     realms, hero_flags>>

Next ==
  \/ \E h \in HeroIds : InsertHero(h)
  \/ \E i \in ItemIds : InsertItem(i)
  \/ \E h \in HeroIds, i \in ItemIds, s \in equipment_slot : Equip(h, i, s)
  \/ \E h \in HeroIds, s \in equipment_slot : Unequip(h, s)

Spec == Init /\ [][Next]_vars

-----------------------------------------------------------------------------
(* Slot validation over every item_types value: one hero, one item whose   *)
(* item_types is any subset of item_type, and every equip and unequip.     *)

InitTypes ==
  /\ heroes = {1}
  /\ \E T \in SUBSET item_type : items = [id \in {1} |-> T]
  /\ hero_inventory = {}
  /\ hero_equipment = {}
  /\ last = NoCall
  /\ txn = [t \in Txns |-> Idle]
  /\ realms = {}
  /\ hero_flags = [h \in heroes |-> DefaultFlags]
  /\ start = {}

NextTypes ==
  \/ \E h \in HeroIds, i \in ItemIds, s \in equipment_slot : Equip(h, i, s)
  \/ \E h \in HeroIds, s \in equipment_slot : Unequip(h, s)

SpecTypes == InitTypes /\ [][NextTypes]_vars

-----------------------------------------------------------------------------
(* Equipment and inventory together: every hero and every Catalog item     *)
(* exists, and the items of InventoryItemIds are stocked, equipped and     *)
(* unequipped.                                                             *)

InitInventory ==
  /\ heroes = HeroIds
  /\ items = [id \in ItemIds |-> Catalog[id]]
  /\ hero_inventory = {}
  /\ hero_equipment = {}
  /\ last = NoCall
  /\ txn = [t \in Txns |-> Idle]
  /\ realms = {}
  /\ hero_flags = [h \in heroes |-> DefaultFlags]
  /\ start = {}

NextInventory ==
  \/ \E h \in HeroIds, i \in InventoryItemIds, q \in Quantities :
       SetInventory(h, i, q)
  \/ \E h \in HeroIds, i \in InventoryItemIds : DeleteInventory(h, i)
  \/ \E h \in HeroIds, i \in InventoryItemIds, s \in equipment_slot :
       Equip(h, i, s)
  \/ \E h \in HeroIds, s \in equipment_slot : Unequip(h, s)

SpecInventory == InitInventory /\ [][NextInventory]_vars

-----------------------------------------------------------------------------
(* Concurrent equip calls.  Each call is one upsert, run by PostgreSQL as   *)
(* one transaction at READ COMMITTED: the BEFORE trigger and the write of  *)
(* NEW, then the AFTER trigger with its DELETE, then the commit.  A write  *)
(* or a delete takes the lock of the row's key and waits while another     *)
(* open transaction holds it; a transaction reads the committed table and  *)
(* its own write, never the uncommitted write of another; PostgreSQL's     *)
(* deadlock detector ends one transaction of a cycle of waits with an      *)
(* error.                                                                  *)

DeadlockDetected == "deadlock detected"

\* The row NEW of the statement of a transaction that has begun.
NewOf(x) == Row(x.args[1], x.args[2], x.args[3])

Key(r) == <<r.hero_id, r.slot>>

\* The table the AFTER trigger of transaction t reads.
Snapshot(t) == WriteRow(hero_equipment, NewOf(txn[t]))

\* The rows the AFTER trigger of transaction t deletes.
TriggerDeletes(t) ==
  Snapshot(t) \ enforce_two_handed_weapon(items, Snapshot(t), NewOf(txn[t]))

\* The BEFORE trigger lets NEW through and the foreign keys hold.
Writes(t) ==
  LET before == validate_equipment_slot_trigger(items, NewOf(txn[t]))
  IN  /\ before.kind = "return"
      /\ before.row = "NEW"
      /\ ForeignKeysHold(heroes, items, NewOf(txn[t]))

\* The keys whose lock the open transaction t holds: the key it wrote and the
\* keys of the rows it deleted.  The locks go when the transaction ends.
Locks(t) ==
  IF txn[t].pc \in {"after", "commit"}
  THEN {Key(NewOf(txn[t]))} \cup { Key(r) : r \in txn[t].deleted }
  ELSE {}

\* The keys whose lock the next step of transaction t takes.
Needs(t) ==
  IF txn[t].pc = "before" /\ Writes(t) THEN {Key(NewOf(txn[t]))}
  ELSE IF txn[t].pc = "after" THEN { Key(r) : r \in TriggerDeletes(t) }
  ELSE {}

\* The transactions t waits for.
WaitsFor(t) == { u \in Txns \ {t} : Locks(u) \cap Needs(t) # {} }

RECURSIVE WaitsForClosure(_, _)
WaitsForClosure(S, n) ==
  IF n = 0 THEN S
  ELSE WaitsForClosure(S \cup UNION { WaitsFor(u) : u \in S }, n - 1)

\* Transaction t is in a cycle of waits.
Deadlocked(t) == t \in WaitsForClosure(WaitsFor(t), NumTxns)

\* The client calls equip(h, i, s): the transaction begins.
Begin(t, h, i, s) ==
  /\ txn[t].pc = "idle"
  /\ txn' = [txn EXCEPT ![t] = [pc |-> "before", args |-> <<h, i, s>>,
                                deleted |-> {}, result |-> ""]]
  /\ UNCHANGED <<heroes, items, hero_inventory, hero_equipment, last, start,
                 realms, hero_flags>>

\* Faulty variant: the write of NEW is visible to others at once.
BeforeAndWriteVisible(t) ==
  /\ txn[t].pc = "before"
  /\ WaitsFor(t) = {}
  /\ LET new == NewOf(txn[t])
         before == validate_equipment_slot_trigger(items, new)
     IN  IF before.kind = "raise"
         THEN /\ txn' = [txn EXCEPT ![t].pc = "done",
                                    ![t].result = before.message]
              /\ UNCHANGED hero_equipment
         ELSE IF before.row = "NULL"
         THEN /\ txn' = [txn EXCEPT ![t].pc = "done", ![t].result = Ok]
              /\ UNCHANGED hero_equipment
         ELSE IF ~ ForeignKeysHold(heroes, items, new)
         THEN /\ txn' = [txn EXCEPT ![t].pc = "done",
                                    ![t].result = ForeignKeyViolation]
              /\ UNCHANGED hero_equipment
         ELSE /\ txn' = [txn EXCEPT ![t].pc = "after"]
              /\ hero_equipment' = WriteRow(hero_equipment, new)
  /\ UNCHANGED <<heroes, items, hero_inventory, last, start,
                 realms, hero_flags>>

\* The BEFORE trigger and the write of NEW.  When the trigger raises or a
\* foreign key fails the transaction ends with the error; otherwise the write
\* waits for the lock of NEW's key and takes it.
BeforeAndWrite(t) ==
  /\ txn[t].pc = "before"
  /\ WaitsFor(t) = {}
  /\ LET new == NewOf(txn[t])
         before == validate_equipment_slot_trigger(items, new)
     IN  IF before.kind = "raise"
         THEN txn' = [txn EXCEPT ![t].pc = "done",
                                 ![t].result = before.message]
         ELSE IF before.row = "NULL"
         THEN txn' = [txn EXCEPT ![t].pc = "done", ![t].result = Ok]
         ELSE IF ~ ForeignKeysHold(heroes, items, new)
         THEN txn' = [txn EXCEPT ![t].pc = "done",
                                 ![t].result = ForeignKeyViolation]
         ELSE txn' = [txn EXCEPT ![t].pc = "after"]
  /\ UNCHANGED <<heroes, items, hero_inventory, hero_equipment, last, start,
                 realms, hero_flags>>

\* The AFTER trigger: its DELETE waits for the locks of the rows it deletes
\* and takes them.
AfterTrigger(t) ==
  /\ txn[t].pc = "after"
  /\ WaitsFor(t) = {}
  /\ txn' = [txn EXCEPT ![t].pc = "commit", ![t].deleted = TriggerDeletes(t)]
  /\ UNCHANGED <<heroes, items, hero_inventory, hero_equipment, last, start,
                 realms, hero_flags>>

\* The commit: the write and the deletes of the transaction reach the
\* committed table together, and its locks are released.
Commit(t) ==
  /\ txn[t].pc = "commit"
  /\ hero_equipment' = WriteRow(hero_equipment, NewOf(txn[t])) \ txn[t].deleted
  /\ txn' = [txn EXCEPT ![t].pc = "done", ![t].result = Ok]
  /\ UNCHANGED <<heroes, items, hero_inventory, last, start,
                 realms, hero_flags>>

\* Faulty variant: no deadlock detection.
DeadlockAbortNever(t) ==
  /\ FALSE
  /\ UNCHANGED vars

\* The deadlock detector ends a transaction that is in a cycle of waits: the
\* statement fails, its write and deletes are rolled back and its locks are
\* released.
DeadlockAbort(t) ==
  /\ txn[t].pc \in {"before", "after"}
  /\ Deadlocked(t)
  /\ txn' = [txn EXCEPT ![t].pc = "done", ![t].deleted = {},
                        ![t].result = DeadlockDetected]
  /\ UNCHANGED <<heroes, items, hero_inventory, hero_equipment, last, start,
                 realms, hero_flags>>

\* The steps of transaction t after its call.
Step(t) ==
  \/ BeforeAndWrite(t)
  \/ AfterTrigger(t)
  \/ Commit(t)
  \/ DeadlockAbort(t)

\* The slots the concurrent calls write.
ConcurrentSlots == { s \in equipment_slot : s \in {"weapon", "shield"} }

\* The hand rows one sequential equip call can leave.
OneEquip(e) ==
  { Upsert(HeroIds, [id \in ItemIds |-> Catalog[id]], e, Row(h, i, s)).table :
      h \in ConcurrentHeroIds, i \in ItemIds, s \in ConcurrentSlots }

\* The tables the concurrent calls start from: what at most two sequential
\* equip calls leave.
StartTables == {{}} \cup OneEquip({}) \cup UNION { OneEquip(e) : e \in OneEquip({}) }

InitConcurrent ==
  /\ heroes = HeroIds
  /\ items = [id \in ItemIds |-> Catalog[id]]
  /\ hero_inventory = {}
  /\ start \in StartTables
  /\ hero_equipment = start
  /\ last = NoCall
  /\ txn = [t \in Txns |-> Idle]
  /\ realms = {}
  /\ hero_flags = [h \in heroes |-> DefaultFlags]

NextConcurrent ==
  \/ \E t \in Txns, h \in ConcurrentHeroIds, i \in ItemIds,
        s \in ConcurrentSlots : Begin(t, h, i, s)
  \/ \E t \in Txns : BeforeAndWrite(t)
  \/ \E t \in Txns : AfterTrigger(t)
  \/ \E t \in Txns : Commit(t)
  \/ \E t \in Txns : DeadlockAbort(t)

SpecConcurrent == InitConcurrent /\ [][NextConcurrent]_vars

\* PostgreSQL runs every backend: a transaction that can take a step takes
\* one, and the deadlock detector runs when a lock wait lasts.
FairSpecConcurrent ==
  SpecConcurrent /\ \A t \in Txns : WF_vars(Step(t))

-----------------------------------------------------------------------------
(* Deleting heroes and items.  hero_inventory and hero_equipment reference *)
(* heroes(id) and items(id) with ON DELETE CASCADE; realms.created_by      *)
(* references heroes(id) with no ON DELETE action.                         *)

\* Faulty variant: the foreign keys of hero_equipment have no ON DELETE
\* CASCADE and are not checked on delete.
DeleteHeroNoCascade(h) ==
  /\ heroes' = heroes \ {h}
  /\ hero_flags' = [g \in heroes \ {h} |-> hero_flags[g]]
  /\ hero_inventory' = { v \in hero_inventory : v.hero_id # h }
  /\ last' = Call("delete_hero", <<h>>, Ok, {}, {})
  /\ UNCHANGED <<items, hero_equipment, txn, start, realms>>

\* DELETE FROM heroes WHERE id = h.  The delete fails while a realm has the
\* hero as created_by; otherwise the hero's rows of hero_inventory and
\* hero_equipment go with it.
DeleteHero(h) ==
  IF \E r \in realms : r.created_by = h
  THEN /\ last' = Call("delete_hero", <<h>>, ForeignKeyViolation, {}, {})
       /\ UNCHANGED <<heroes, items, hero_inventory, hero_equipment, txn,
                      start, realms, hero_flags>>
  ELSE /\ heroes' = heroes \ {h}
       /\ hero_flags' = [g \in heroes \ {h} |-> hero_flags[g]]
       /\ hero_inventory' = { v \in hero_inventory : v.hero_id # h }
       /\ hero_equipment' = { r \in hero_equipment : r.hero_id # h }
       /\ last' = Call("delete_hero", <<h>>, Ok,
                       hero_equipment, hero_equipment')
       /\ UNCHANGED <<items, txn, start, realms>>

\* DELETE FROM items WHERE id = i: the rows of hero_inventory and
\* hero_equipment with the item go with it.
DeleteItem(i) ==
  /\ items' = [id \in DOMAIN items \ {i} |-> items[id]]
  /\ hero_inventory' = { v \in hero_inventory : v.item_id # i }
  /\ hero_equipment' = { r \in hero_equipment : r.item_id # i }
  /\ last' = Call("delete_item", <<i>>, Ok, hero_equipment, hero_equipment')
  /\ UNCHANGED <<heroes, txn, start, realms, hero_flags>>

NextCascade ==
  \/ \E h \in HeroIds : InsertHero(h)
  \/ \E i \in ItemIds : InsertItem(i)
  \/ \E h \in HeroIds : DeleteHero(h)
  \/ \E i \in ItemIds : DeleteItem(i)
  \/ \E h \in HeroIds, i \in InventoryItemIds, s \in equipment_slot :
       Equip(h, i, s)
  \/ \E h \in HeroIds, i \in InventoryItemIds :
       SetInventory(h, i, MaxQuantity)

SpecCascade == Init /\ [][NextCascade]_vars

-----------------------------------------------------------------------------
(* Table realms                                                            *)

NumRealms == 2

RealmIds == 1 .. NumRealms

\* The null uuid: no hero has it as id.
NullId == 0

\* The values written to realms.created_by.
Creators == HeroIds \cup {NullId}

RealmCreatorError == "Realm creator must be a developer or paying customer"

NotNullViolation == "not_null_violation"

RealmRow(id, created_by) == [id |-> id, created_by |-> created_by]

\* Faulty variant: the hero only has to exist.
validate_realm_creator_any_hero(heroesT, flags, new) ==
  IF ~ \E id \in heroesT : id = new.created_by
  THEN RaiseException(RealmCreatorError)
  ELSE ReturnNew

\* "flag = true" is true for the value true only, neither for false nor for
\* null; "id = NEW.created_by" is true for no hero when created_by is null.
validate_realm_creator(heroesT, flags, new) ==
  IF ~ \E id \in heroesT :
         /\ id = new.created_by
         /\ (flags[id].is_developer = "true"
               \/ flags[id].is_paying_customer = "true")
  THEN RaiseException(RealmCreatorError)
  ELSE ReturnNew

\* BEFORE INSERT OR UPDATE ON realms FOR EACH ROW
validate_realm_creator_trigger(heroesT, flags, new) ==
  validate_realm_creator(heroesT, flags, new)

\* The write of the row NEW of realms, by INSERT or by UPDATE: the BEFORE
\* trigger first, then created_by NOT NULL and its foreign key.
WriteRealm(heroesT, flags, realmsT, new) ==
  LET before == validate_realm_creator_trigger(heroesT, flags, new)
  IN  IF before.kind = "raise"
      THEN [result |-> before.message, table |-> realmsT]
      ELSE IF new.created_by = NullId
      THEN [result |-> NotNullViolation, table |-> realmsT]
      ELSE IF new.created_by \notin heroesT
      THEN [result |-> ForeignKeyViolation, table |-> realmsT]
      ELSE [result |-> Ok,
            table |-> { r \in realmsT : r.id # new.id } \cup {new}]

\* INSERT INTO realms.  The id is a fresh uuid (gen_random_uuid()): the realms
\* are numbered in the order of their insertion.
InsertRealm(id, c) ==
  /\ \A r \in realms : r.id # id
  /\ (id = 1 \/ \E r \in realms : r.id = id - 1)
  /\ LET out == WriteRealm(heroes, hero_flags, realms, RealmRow(id, c))
     IN  /\ realms' = out.table
         /\ last' = Call("insert_realm", <<id, c>>, out.result, {}, {})
  /\ UNCHANGED <<heroes, items, hero_inventory, hero_equipment, txn, start,
                 hero_flags>>

\* UPDATE realms SET created_by = c WHERE id = ..; with c the present
\* created_by it is an update of the other columns.
UpdateRealm(id, c) ==
  /\ \E r \in realms : r.id = id
  /\ LET out == WriteRealm(heroes, hero_flags, realms, RealmRow(id, c))
     IN  /\ realms' = out.table
         /\ last' = Call("update_realm", <<id, c>>, out.result, {}, {})
  /\ UNCHANGED <<heroes, items, hero_inventory, hero_equipment, txn, start,
                 hero_flags>>

\* DELETE FROM realms WHERE id = ..
DeleteRealm(id) ==
  /\ \E r \in realms : r.id = id
  /\ realms' = { r \in realms : r.id # id }
  /\ last' = Call("delete_realm", <<id>>, Ok, {}, {})
  /\ UNCHANGED <<heroes, items, hero_inventory, hero_equipment, txn, start,
                 hero_flags>>

\* UPDATE heroes SET is_developer = d, is_paying_customer = p WHERE id = h
SetHeroFlags(h, d, p) ==
  /\ h \in heroes
  /\ hero_flags' = [hero_flags EXCEPT ![h] =
                      [is_developer |-> d, is_paying_customer |-> p]]
  /\ last' = Call("update_hero", <<h, d, p>>, Ok, {}, {})
  /\ UNCHANGED <<heroes, items, hero_inventory, hero_equipment, txn, start,
                 realms>>

NextRealms ==
  \/ \E h \in HeroIds : InsertHero(h)
  \/ \E h \in HeroIds, d \in Flag, p \in Flag : SetHeroFlags(h, d, p)
  \/ \E h \in HeroIds : DeleteHero(h)
  \/ \E id \in RealmIds, c \in Creators : InsertRealm(id, c)
  \/ \E id \in RealmIds, c \in Creators : UpdateRealm(id, c)
  \/ \E id \in RealmIds : DeleteRealm(id)

SpecRealms == Init /\ [][NextRealms]_vars

-----------------------------------------------------------------------------
(* Vocabulary of the claims                                                *)

Hands == {"weapon", "shield"}

Sibling(slot) == IF slot = "weapon" THEN "shield" ELSE "weapon"

\* The slots the rules allow for an item with the item types T.
AcceptedSlots(T) ==
  (T \cap equipment_slot)
    \cup (IF "two_handed_weapon" \in T THEN {"weapon", "shield"} ELSE {})
    \cup (IF "robe" \in T THEN {"armor", "helm"} ELSE {})

canEquip(i, s) == i \in DOMAIN items /\ s \in AcceptedSlots(items[i])

IsTwoHanded(i) == i \in DOMAIN items /\ "two_handed_weapon" \in items[i]

\* The items equipped by hero h in slot s, in the table e.
getEquipped(e, h, s) ==
  { r.item_id : r \in { q \in e : q.hero_id = h /\ q.slot = s } }

EquipSucceeded(c) == c.op = "equip" /\ c.result = Ok

-----------------------------------------------------------------------------
(* C1 - C10                                                                *)

\* C1: the slot validation accepts an item with the item types T at slot s
\* exactly when s is in T, or s is a hand slot and T has two_handed_weapon, or
\* s is armor or helm and T has robe: an equip of an existing item is refused
\* with 'Item cannot be equipped in the specified slot' exactly otherwise.
C1_SlotValidation ==
  (last.op = "equip" /\ last.args[2] \in DOMAIN items)
    => ((last.result # IncompatibleSlot)
          <=> last.args[3] \in AcceptedSlots(items[last.args[2]]))

C1_Witness ==
  /\ last.op = "equip"
  /\ last.args[2] \in DOMAIN items
  /\ items[last.args[2]] = {"robe"}
  /\ last.args[3] = "weapon"
  /\ last.result = IncompatibleSlot
  /\ \E r \in hero_equipment : r.slot = "armor"

\* C2: every row of hero_equipment holds an item whose item types allow the
\* row's slot.
C2_EquippedIsCompatible ==
  \A r \in hero_equipment : canEquip(r.item_id, r.slot)

C2_Witness ==
  /\ \E r \in hero_equipment : r.slot = "shield" /\ IsTwoHanded(r.item_id)
  /\ \E r \in hero_equipment : r.slot = "helm" /\ "robe" \in items[r.item_id]
  /\ last.op = "unequip"

\* C3: an equip of an item into a slot its item types do not allow fails with
\* 'Item cannot be equipped in the specified slot' and leaves every row of
\* hero_equipment as it was.
C3_RejectedEquipChangesNothing ==
  [][ (/\ last'.op = "equip"
       /\ last'.args[2] \in DOMAIN items
       /\ ~ canEquip(last'.args[2], last'.args[3]))
        => (/\ last'.result = IncompatibleSlot
            /\ hero_equipment' = hero_equipment) ]_vars

C3_Witness ==
  /\ last.op = "equip"
  /\ last.args[2] \in DOMAIN items
  /\ last.args[3] = "weapon"
  /\ ~ canEquip(last.args[2], last.args[3])
  /\ last.result = IncompatibleSlot
  /\ getEquipped(hero_equipment, last.args[1], "weapon") # {}
  /\ getEquipped(hero_equipment, last.args[1], "shield") # {}

\* C4: after a successful equip of a two-handed item into weapon (shield),
\* the same hero's shield (weapon) slot is empty, whatever it held.
C4_TwoHandedClearsSibling ==
  (/\ EquipSucceeded(last)
   /\ last.args[3] \in Hands
   /\ IsTwoHanded(last.args[2]))
    => getEquipped(hero_equipment, last.args[1], Sibling(last.args[3])) = {}

C4_Witness ==
  /\ EquipSucceeded(last)
  /\ last.args[3] = "weapon"
  /\ IsTwoHanded(last.args[2])
  /\ \E r \in last.evicted :
       /\ r.hero_id = last.args[1]
       /\ r.slot = "shield"
       /\ items[r.item_id] = {"shield"}

\* C5: whenever the weapon or the shield slot of a hero holds a two-handed
\* item, the other of the two slots is empty.
C5_TwoHandedExclusive ==
  \A r \in hero_equipment :
    (r.slot \in Hands /\ IsTwoHanded(r.item_id))
      => getEquipped(hero_equipment, r.hero_id, Sibling(r.slot)) = {}

\* C6: no two-handed item is in the weapon slot and in the shield slot of
\* the same hero at once.
C6_NoTwoHandedItemInBothHands ==
  \A r, q \in hero_equipment :
    ~ (/\ r.hero_id = q.hero_id
       /\ r.slot = "weapon"
       /\ q.slot = "shield"
       /\ r.item_id = q.item_id
       /\ IsTwoHanded(r.item_id))

C6_Witness ==
  /\ EquipSucceeded(last)
  /\ last.args[3] = "shield"
  /\ IsTwoHanded(last.args[2])
  /\ Row(last.args[1], last.args[2], "weapon") \in last.evicted

\* C7: after a successful equip(hero, item, slot) the slot of the hero holds
\* exactly that item, whatever it held before.
C7_EquipWritesSlot ==
  EquipSucceeded(last)
    => getEquipped(hero_equipment, last.args[1], last.args[3]) = {last.args[2]}

C7_Witness ==
  /\ EquipSucceeded(last)
  /\ \E r \in last.evicted :
       /\ r.hero_id = last.args[1]
       /\ r.slot = last.args[3]
       /\ r.item_id # last.args[2]

\* C8: hero_equipment has at most one row for a hero and a slot.
C8_OneRowPerHeroAndSlot ==
  \A r, q \in hero_equipment :
    (r.hero_id = q.hero_id /\ r.slot = q.slot) => r = q

C8_Witness ==
  /\ EquipSucceeded(last)
  /\ last.inserted = {Row(last.args[1], last.args[2], last.args[3])}
  /\ \E r \in last.evicted : r.slot = last.args[3]
  /\ Cardinality(hero_equipment) >= 3

\* C9: an equip of an item into a slot its item types allow, for a hero that
\* exists, succeeds; done again at once it succeeds again and leaves
\* hero_equipment as the first left it.
C9_EquipIdempotent ==
  (/\ last.op = "equip"
   /\ last.args[1] \in heroes
   /\ canEquip(last.args[2], last.args[3]))
    => LET again == Upsert(heroes, items, hero_equipment,
                           Row(last.args[1], last.args[2], last.args[3]))
       IN  /\ last.result = Ok
           /\ again.result = Ok
           /\ again.table = hero_equipment

\* The equip found its own row in place and removed nothing: the second of
\* two equal calls, here of a two-handed item.
C9_Witness ==
  /\ EquipSucceeded(last)
  /\ IsTwoHanded(last.args[2])
  /\ last.args[3] \in Hands
  /\ last.inserted = {}
  /\ last.evicted = {}

\* C10: unequip(hero, slot) succeeds always; afterwards the slot is empty, an
\* empty slot leaves hero_equipment as it was, and a second unequip changes
\* nothing more.
C10_UnequipSucceeds ==
  [][ last'.op = "unequip"
        => (/\ last'.result = Ok
            /\ getEquipped(hero_equipment', last'.args[1], last'.args[2]) = {}
            /\ (getEquipped(hero_equipment, last'.args[1], last'.args[2]) = {}
                  => hero_equipment' = hero_equipment)
            /\ DeleteRow(hero_equipment', last'.args[1], last'.args[2])
                 = [result |-> Ok, table |-> hero_equipment']) ]_vars

C10_Witness ==
  /\ last.op = "unequip"
  /\ last.result = Ok
  /\ last.evicted = {}
  /\ \E r \in hero_equipment : r.hero_id = last.args[1]

-----------------------------------------------------------------------------
(* C11 - C20                                                               *)

\* C11: no equip and no unequip, successful or failed, changes a row of
\* hero_inventory; an item taken out of a slot by a re-equip or by the
\* two-handed clear keeps its inventory row.
C11_InventoryUntouched ==
  [][ last'.op \in {"equip", "unequip"}
        => hero_inventory' = hero_inventory ]_vars

\* A two-handed equip has just removed the hero's shield, and the shield is
\* in the hero's inventory.
C11_Witness ==
  /\ EquipSucceeded(last)
  /\ IsTwoHanded(last.args[2])
  /\ \E r \in last.evicted :
       /\ r.item_id # last.args[2]
       /\ InventoryRow(r.hero_id, r.item_id, 1) \in hero_inventory

\* C12: an equip of an item id that is not in items fails with an error of
\* its own, not the one of a slot mismatch, and changes no row of
\* hero_equipment.
C12_MissingItemHasOwnError ==
  (last.op = "equip" /\ last.args[2] \notin DOMAIN items)
    => (/\ last.result \notin {Ok, IncompatibleSlot}
        /\ last.evicted = {}
        /\ last.inserted = {})

\* C14, as claimed: after a successful equip of a two-handed item into any
\* slot s, the hero has no row in a hand slot other than s.
C14_TwoHandedClearsHandsFromAnySlot ==
  (EquipSucceeded(last) /\ IsTwoHanded(last.args[2]))
    => \A k \in Hands \ {last.args[3]} :
         getEquipped(hero_equipment, last.args[1], k) = {}

\* C14, amended: a successful equip of a two-handed item into weapon or
\* shield leaves the hero's other hand slot empty; into a slot outside
\* weapon and shield it leaves both hand slots as they were.
C14_TwoHandedClearsOnlyFromHands ==
  [][ (EquipSucceeded(last') /\ IsTwoHanded(last'.args[2]))
        => IF last'.args[3] \in Hands
           THEN getEquipped(hero_equipment', last'.args[1],
                            Sibling(last'.args[3])) = {}
           ELSE \A k \in Hands :
                  getEquipped(hero_equipment', last'.args[1], k)
                    = getEquipped(hero_equipment, last'.args[1], k) ]_vars

C14_Witness ==
  /\ EquipSucceeded(last)
  /\ IsTwoHanded(last.args[2])
  /\ last.args[3] = "helm"
  /\ last.inserted # {}
  /\ getEquipped(hero_equipment, last.args[1], "shield") # {}

\* C15: a successful equip of an item that is not two-handed leaves every
\* other slot of the hero as it was; a successful equip of a two-handed item
\* into weapon or shield leaves helm, armor and gloves as they were.
C15_EquipLeavesOtherSlots ==
  [][ EquipSucceeded(last')
        => LET h == last'.args[1]
               s == last'.args[3]
               kept == IF ~ IsTwoHanded(last'.args[2])
                       THEN equipment_slot \ {s}
                       ELSE IF s \in Hands
                       THEN {"helm", "armor", "gloves"}
                       ELSE {}
           IN  \A k \in kept :
                 getEquipped(hero_equipment', h, k)
                   = getEquipped(hero_equipment, h, k) ]_vars

\* A robe has just been put on as armor, and the helm is still on.
C15_Witness ==
  /\ EquipSucceeded(last)
  /\ items[last.args[2]] = {"robe"}
  /\ last.args[3] = "armor"
  /\ last.inserted # {}
  /\ getEquipped(hero_equipment, last.args[1], "helm") # {}
  /\ getEquipped(hero_equipment, last.args[1], "shield") # {}

\* C16: unequip(hero, slot) changes no row but the one of (hero, slot).
C16_UnequipLeavesOtherSlots ==
  [][ last'.op = "unequip"
        => LET others(e) == { r \in e : ~ (/\ r.hero_id = last'.args[1]
                                           /\ r.slot = last'.args[2]) }
           IN  others(hero_equipment') = others(hero_equipment) ]_vars

\* A two-handed item has just been taken out of the weapon slot, and the
\* shield slot is still occupied.
C16_Witness ==
  /\ last.op = "unequip"
  /\ last.args[2] = "weapon"
  /\ \E r \in last.evicted : IsTwoHanded(r.item_id)
  /\ getEquipped(hero_equipment, last.args[1], "shield") # {}

\* C20: whether an equip succeeds, and the hero_equipment it leaves, are
\* given by the item's types, the slot and the hero_equipment before, whatever
\* hero_inventory holds: the item need not be in the hero's inventory.
C20_EquipIgnoresInventory ==
  [][ (/\ last'.op = "equip"
       /\ last'.args[1] \in heroes
       /\ last'.args[2] \in DOMAIN items)
        => LET h == last'.args[1]
               i == last'.args[2]
               s == last'.args[3]
               accepted == s \in AcceptedSlots(items[i])
               replaced == { r \in hero_equipment :
                               r.hero_id = h /\ r.slot = s }
               cleared == IF s \in Hands /\ "two_handed_weapon" \in items[i]
                          THEN { r \in hero_equipment :
                                   r.hero_id = h /\ r.slot = Sibling(s) }
                          ELSE {}
           IN  IF accepted
               THEN /\ last'.result = Ok
                    /\ hero_equipment'
                         = ((hero_equipment \ replaced) \ cleared)
                             \cup {Row(h, i, s)}
               ELSE /\ last'.result = IncompatibleSlot
                    /\ hero_equipment' = hero_equipment ]_vars

\* The hero has just equipped an item of which the inventory says the hero
\* has none, while another hero has one.
C20_Witness ==
  /\ EquipSucceeded(last)
  /\ last.inserted # {}
  /\ InventoryRow(last.args[1], last.args[2], 0) \in hero_inventory
  /\ \E v \in hero_inventory :
       /\ v.hero_id # last.args[1]
       /\ v.item_id = last.args[2]
       /\ v.quantity > 0

\* The outcome of the equip or unequip call c on the table e.
Apply(c, e) ==
  IF c.op = "equip"
  THEN Upsert(heroes, items, e, Row(c.args[1], c.args[2], c.args[3]))
  ELSE DeleteRow(e, c.args[1], c.args[2])

\* The equip and unequip calls of hero h.
CallsOf(h) ==
  { [op |-> "equip", args |-> <<h, i, s>>] :
      i \in ItemIds, s \in equipment_slot }
    \cup { [op |-> "unequip", args |-> <<h, s>>] : s \in equipment_slot }

\* C17: an equip or unequip of hero h changes no row of another hero, and
\* it commutes with every equip and unequip of another hero: done before or
\* after, both calls end the same way and leave the same hero_equipment.
C17_HeroesIndependent ==
  last.op \in {"equip", "unequip"}
    => LET h == last.args[1]
           before == (hero_equipment \ last.inserted) \cup last.evicted
       IN  /\ \A r \in last.evicted \cup last.inserted : r.hero_id = h
           /\ \A g \in HeroIds \ {h} : \A c \in CallsOf(g) :
                LET first == Apply(c, before)
                    then == Apply(last, first.table)
                    after == Apply(c, hero_equipment)
                IN  /\ then.result = last.result
                    /\ after.result = first.result
                    /\ after.table = then.table

\* Hero 1 has just equipped a two-handed item that cleared a hand slot,
\* while hero 2 has both hand slots occupied.
C17_Witness ==
  /\ EquipSucceeded(last)
  /\ IsTwoHanded(last.args[2])
  /\ last.evicted # {}
  /\ \E g \in heroes \ {last.args[1]} :
       /\ getEquipped(hero_equipment, g, "weapon") # {}
       /\ getEquipped(hero_equipment, g, "shield") # {}

-----------------------------------------------------------------------------
(* Concurrent equip calls                                                  *)

\* Every transaction has ended.
Finished == \A t \in Txns : txn[t].pc = "done"

\* The transactions that committed or were rejected by the statement itself.
Completed == { t \in Txns : txn[t].pc = "done" /\ txn[t].result # DeadlockDetected }

\* The tables that running the calls of the transactions T one after the
\* other, in any order, leaves from the table e.
RECURSIVE SerialOutcomes(_, _)
SerialOutcomes(T, e) ==
  IF T = {} THEN {e}
  ELSE UNION { SerialOutcomes(T \ {t},
                              Upsert(heroes, items, e, NewOf(txn[t])).table) :
                 t \in T }

\* C13: concurrent equip calls of one hero are serializable: when the calls
\* have ended, the committed table is the table that running them one after
\* the other in some order leaves from the table they started from.
C13_ConcurrentEquipsSerializable ==
  Finished => hero_equipment \in SerialOutcomes(Completed, start)

Endings == {Ok, IncompatibleSlot, ForeignKeyViolation, DeadlockDetected}

\* C19: concurrent equip calls of one hero never block each other forever:
\* every call that has begun eventually ends, committed or failed with an
\* error, also when both hand slots are occupied and the calls equip
\* two-handed items into weapon and into shield.
C19_ConcurrentEquipsComplete ==
  \A t \in Txns :
    (txn[t].pc # "idle")
      ~> (txn[t].pc = "done" /\ txn[t].result \in Endings)

\* Both hand slots were occupied, one call equipped a two-handed item into
\* weapon and the other a two-handed item into shield, each waited for the
\* other's row, and both have ended: one failed with the deadlock error and
\* the other committed.
C19_Witness ==
  /\ \A s \in Hands : getEquipped(start, 1, s) # {}
  /\ \E t \in Txns, u \in Txns :
       /\ {txn[t].pc, txn[u].pc} = {"done"}
       /\ NewOf(txn[t]).slot = "weapon"
       /\ NewOf(txn[u]).slot = "shield"
       /\ IsTwoHanded(NewOf(txn[t]).item_id)
       /\ IsTwoHanded(NewOf(txn[u]).item_id)
       /\ {txn[t].result, txn[u].result} = {Ok, DeadlockDetected}

-----------------------------------------------------------------------------
(* Inventory quantities                                                    *)

\* C23: every inventory row has a quantity of zero or more.
C23_QuantityNotNegative ==
  \A v \in hero_inventory : v.quantity >= 0

-----------------------------------------------------------------------------
(* References                                                              *)

\* C21: every equipped entry and every inventory entry references a hero that
\* exists and an item that exists; an equip for a hero or an item that does
\* not exist creates no entry; after the delete of a hero or an item no entry
\* references it.
C21_EntriesReferenceExistingRows ==
  /\ \A r \in hero_equipment :
       r.hero_id \in heroes /\ r.item_id \in DOMAIN items
  /\ \A v \in hero_inventory :
       v.hero_id \in heroes /\ v.item_id \in DOMAIN items
  /\ (last.op = "equip"
        /\ (last.args[1] \notin heroes \/ last.args[2] \notin DOMAIN items))
       => last.result # Ok /\ last.inserted = {} /\ last.evicted = {}
  /\ last.op = "delete_hero" /\ last.result = Ok
       => /\ last.args[1] \notin heroes
          /\ \A r \in hero_equipment \cup hero_inventory :
               r.hero_id # last.args[1]
  /\ last.op = "delete_item"
       => /\ last.args[1] \notin DOMAIN items
          /\ \A r \in hero_equipment \cup hero_inventory :
               r.item_id # last.args[1]

\* A hero with an equipped entry has just been deleted, and the entry went
\* with it, while another hero keeps an entry.
C21_Witness ==
  /\ last.op = "delete_hero"
  /\ last.result = Ok
  /\ last.evicted # {}
  /\ hero_equipment # {}

-----------------------------------------------------------------------------
(* Realms                                                                  *)

\* The hero c exists and is a developer or a paying customer.
MayCreateRealm(c) ==
  /\ c \in heroes
  /\ (hero_flags[c].is_developer = "true"
        \/ hero_flags[c].is_paying_customer = "true")

\* C24: a realm is inserted or updated only when its created_by hero exists
\* and has is_developer or is_paying_customer true at the time of the write;
\* then the write succeeds and the row is in realms.  Otherwise the write
\* fails with 'Realm creator must be a developer or paying customer' and
\* realms is unchanged.
C24_RealmCreatorValidated ==
  [][ last'.op \in {"insert_realm", "update_realm"}
        => LET id == last'.args[1]
               c == last'.args[2]
           IN  IF MayCreateRealm(c)
               THEN /\ last'.result = Ok
                    /\ realms' = { r \in realms : r.id # id }
                                   \cup {RealmRow(id, c)}
               ELSE /\ last'.result = RealmCreatorError
                    /\ realms' = realms ]_vars

\* The update of a realm has just been refused although its new creator
\* exists: the hero is neither developer nor paying customer (one flag is
\* null), and the realm is as it was.
C24_Witness ==
  /\ last.op = "update_realm"
  /\ last.result = RealmCreatorError
  /\ last.args[2] \in heroes
  /\ hero_flags[last.args[2]].is_developer = "null"
  /\ \E r \in realms : r.id = last.args[1] /\ r.created_by # last.args[2]

-----------------------------------------------------------------------------
(* Versions                                                                *)

\* The state before the last statement.
Before == (hero_equipment \ last.inserted) \cup last.evicted

\* C22: the slot-compatibility rule is the same in every version in the
\* source.  For every row NEW (hero, item, slot), over every item_types value
\* and every table, the CHECK valid_equipment_slot and the function
\* validate_equipment_slot of each migration accept the same rows, each
\* version of check_two_handed_weapon with its trigger leaves the same table,
\* and the upsert as a whole is accepted alike and leaves the same table.
C22_VersionsAgree ==
  \A h \in HeroIds, i \in ItemIds, s \in equipment_slot :
    LET new == Row(h, i, s)
        written == WriteRow(hero_equipment, new)
        accepts == validate_equipment_slot(items, new) = ReturnNew
        cleared == enforce_two_handed_weapon(items, written, new)
        out == Upsert(heroes, items, hero_equipment, new)
    IN  /\ valid_equipment_slot(items, new) = accepts
        /\ (validate_equipment_slot_part_001(items, new) = ReturnNew)
             = accepts
        /\ (validate_equipment_slot_wispy_waterfall(items, new) = ReturnNew)
             = accepts
        /\ enforce_two_handed_weapon_part_002(items, written, new) = cleared
        /\ enforce_two_handed_weapon_part_001(items, written, new) = cleared
        /\ enforce_two_handed_weapon_wispy_waterfall(items, written, new)
             = cleared
        /\ check_two_handed_weapon_part_002(items, written, new)
             = check_two_handed_weapon(items, written, new)
        /\ check_two_handed_weapon_part_001(items, written, new)
             = check_two_handed_weapon(items, written, new)
        /\ check_two_handed_weapon_wispy_waterfall(items, written, new)
             = check_two_handed_weapon(items, written, new)
        /\ \A v \in { Upsert_part_002(heroes, items, hero_equipment, new),
                      Upsert_part_001(heroes, items, hero_equipment, new),
                      Upsert_wispy_waterfall(heroes, items, hero_equipment,
                                             new) } :
             (v.result = Ok) = (out.result = Ok) /\ v.table = out.table

\* An item that is a robe and a two-handed weapon has just been equipped into
\* a hand slot and has cleared the sibling slot, and the upsert of
\* unnamed/part_002, with the CHECK, does the same from the state before.
C22_Witness ==
  /\ EquipSucceeded(last)
  /\ last.args[3] \in Hands
  /\ last.evicted # {}
  /\ {"robe", "two_handed_weapon"} \subseteq items[last.args[2]]
  /\ valid_equipment_slot(items, Row(last.args[1], last.args[2], "armor"))
  /\ Upsert_part_002(heroes, items, Before,
                     Row(last.args[1], last.args[2], last.args[3])).table
       = hero_equipment
====
